---------------------------- MODULE Spec2Model ----------------------------
(***************************************************************************)
(* pretf variable resolution: VariableStore, TerraformVariableStore and    *)
(* VariableProxy of pretf/variables.py.                                    *)
(*                                                                         *)
(* A Python string is a sequence of tokens (TLA+ strings that the code     *)
(* never cuts): "x.auto.tfvars" is <<"x", ".auto", ".tfvars">> and         *)
(* "-var=A=4" is <<"-var=", "A", "=", "4">>.  startswith, endswith, slices *)
(* and splits are computed on the token sequences.                         *)
(***************************************************************************)
EXTENDS Integers, Sequences, FiniteSets, TLC

(***************************************************************************)
(* Bounds of the model.                                                    *)
(***************************************************************************)
\* Longest command line (sys.argv[1:]) the environment is drawn with.
MaxArgs == 2
\* Deepest nesting of get calls (a get, and the gets the Job Driver makes
\* from inside process_jobs).
MaxDepth == 2

(***************************************************************************)
(* String operations.                                                      *)
(***************************************************************************)
NoStr == << >>

StartsWith(s, prefix) ==
    /\ Len(s) >= Len(prefix)
    /\ SubSeq(s, 1, Len(prefix)) = prefix

EndsWith(s, suffix) ==
    /\ Len(s) >= Len(suffix)
    /\ SubSeq(s, Len(s) - Len(suffix) + 1, Len(s)) = suffix

\* s[n:] for a prefix of n tokens.
DropPrefix(s, n) == SubSeq(s, n + 1, Len(s))

\* Index of the first token of s equal to sep, 0 when there is none.
RECURSIVE FindFrom(_, _, _)
FindFrom(s, sep, i) ==
    IF i > Len(s) THEN 0
    ELSE IF s[i] = sep THEN i
    ELSE FindFrom(s, sep, i + 1)

Find(s, sep) == FindFrom(s, sep, 1)

\* s.split(sep, 1): one or two pieces.
SplitOnce(s, sep) ==
    LET i == Find(s, sep)
    IN  IF i = 0 THEN <<s>>
        ELSE <<SubSeq(s, 1, i - 1), SubSeq(s, i + 1, Len(s))>>

\* shlex.split on unquoted text: the words between runs of whitespace.
RECURSIVE ShlexSplit(_)
ShlexSplit(s) ==
    IF s = << >> THEN << >>
    ELSE IF Head(s) = " " THEN ShlexSplit(Tail(s))
    ELSE LET i == Find(s, " ")
         IN  IF i = 0 THEN <<s>>
             ELSE <<SubSeq(s, 1, i - 1)>> \o ShlexSplit(SubSeq(s, i + 1, Len(s)))

\* Code-point order of the tokens file names are made of: '.' sorts before
\* every letter, and a token sorts before the tokens it is a prefix of.
TokenRank(t) ==
    CASE t = ".auto" -> 1
      [] t = ".json" -> 2
      [] t = ".tf" -> 3
      [] t = ".tfvars" -> 4
      [] t = ".txt" -> 5
      [] t = "a" -> 6
      [] t = "b" -> 7
      [] t = "g" -> 8
      [] t = "gen" -> 9
      [] t = "main" -> 10
      [] t = "notes" -> 11
      [] t = "terraform" -> 12
      [] t = "vars" -> 13
      [] t = "x" -> 14
      [] OTHER -> 15

\* s < t in the order of Python's str comparison.
RECURSIVE StrLess(_, _)
StrLess(s, t) ==
    IF t = << >> THEN FALSE
    ELSE IF s = << >> THEN TRUE
    ELSE IF Head(s) = Head(t) THEN StrLess(Tail(s), Tail(t))
    ELSE TokenRank(Head(s)) < TokenRank(Head(t))

\* sorted(names) of a set of strings.
RECURSIVE Sorted(_)
Sorted(S) ==
    IF S = {} THEN << >>
    ELSE LET m == CHOOSE x \in S : \A y \in S \ {x} : StrLess(x, y)
         IN  <<m>> \o Sorted(S \ {m})

\* The orders a directory listing or the iteration of a set may come in.
Perms(S) ==
    {p \in [1..Cardinality(S) -> S] : \A x \in S : \E i \in DOMAIN p : p[i] = x}

SeqToSet(s) == {s[i] : i \in DOMAIN s}

(***************************************************************************)
(* VariableDefinition, VariableValue and the errors.                       *)
(***************************************************************************)
\* VariableDefinition(name, source) and VariableDefinition(name, source,
\* default=value): the attribute default exists only with has_default.
VariableDefinition(name, source, has_default, default) ==
    IF has_default
    THEN [cls |-> "VariableDefinition", name |-> name, source |-> source,
          has_default |-> TRUE, default |-> default]
    ELSE [cls |-> "VariableDefinition", name |-> name, source |-> source,
          has_default |-> FALSE]

VariableValue(name, value, source) ==
    [cls |-> "VariableValue", name |-> name, value |-> value, source |-> source]

Returned(value) == [kind |-> "return", value |-> value]

None == <<"None">>

Ok == Returned(None)

VariableAlreadyDefined(old_var, new_var) ==
    [kind |-> "VariableAlreadyDefined", old_var |-> old_var, new_var |-> new_var]

VariableNotConsistent(old_var, new_var) ==
    [kind |-> "VariableNotConsistent", old_var |-> old_var, new_var |-> new_var]

VariableNotDefined(name, consumer) ==
    [kind |-> "VariableNotDefined", name |-> name, consumer |-> consumer]

VariableNotPopulated(name, consumer) ==
    [kind |-> "VariableNotPopulated", name |-> name, consumer |-> consumer]

\* The built-in exceptions the code raises or lets through.
PyError(kind, arg) == [kind |-> kind, arg |-> arg]

Raised(outcome) == outcome.kind # "return"

(***************************************************************************)
(* VariableStore: operations on a store st, a record of the instance's     *)
(* attributes.  Each returns the outcome (a return value or the exception  *)
(* raised) and, when it writes, the store afterwards.                      *)
(***************************************************************************)
\* VariableStore.__init__ followed by TerraformVariableStore.__init__.
NewStore ==
    [allow_defaults |-> TRUE,
     definitions |-> << >>,
     values |-> << >>,
     files_created |-> {},
     tfvars_waiting |-> {},
     load_has_run |-> FALSE]

\* __contains__ answering for a Value that has no Definition.
StoreContainsAnyValue(st, name) ==
    \/ name \in DOMAIN st.values
    \/ /\ name \in DOMAIN st.definitions
       /\ st.allow_defaults
       /\ st.definitions[name].has_default

\* VariableStore.__contains__
StoreContains(st, name) ==
    IF name \in DOMAIN st.definitions
    THEN IF name \in DOMAIN st.values THEN TRUE
         ELSE IF st.allow_defaults
              THEN IF st.definitions[name].has_default THEN TRUE ELSE FALSE
              ELSE FALSE
    ELSE FALSE

\* add naming the incoming Definition as the old one.
StoreAddOldNewSwapped(st, var) ==
    IF var.cls = "VariableDefinition"
    THEN IF var.name \in DOMAIN st.definitions
         THEN [st |-> st,
               out |-> VariableAlreadyDefined(var, st.definitions[var.name])]
         ELSE [st |-> [st EXCEPT !.definitions = (var.name :> var) @@ @],
               out |-> Ok]
    ELSE IF var.cls = "VariableValue"
    THEN [st |-> [st EXCEPT !.values = (var.name :> var) @@ @], out |-> Ok]
    ELSE [st |-> st, out |-> PyError("TypeError", var)]

\* VariableStore.add: the dictionary entry is written or an exception raised.
StoreAdd(st, var) ==
    IF var.cls = "VariableDefinition"
    THEN IF var.name \in DOMAIN st.definitions
         THEN [st |-> st,
               out |-> VariableAlreadyDefined(st.definitions[var.name], var)]
         ELSE [st |-> [st EXCEPT !.definitions = (var.name :> var) @@ @],
               out |-> Ok]
    ELSE IF var.cls = "VariableValue"
    THEN [st |-> [st EXCEPT !.values = (var.name :> var) @@ @], out |-> Ok]
    ELSE [st |-> st, out |-> PyError("TypeError", var)]

\* VariableStore.enable_defaults / disable_defaults
EnableDefaults(st) == [st EXCEPT !.allow_defaults = TRUE]

DisableDefaults(st) == [st EXCEPT !.allow_defaults = FALSE]

\* get raising NotPopulated where the code raises NotDefined, and the
\* reverse.
StoreGetErrorsSwapped(st, name, consumer) ==
    IF name \in DOMAIN st.definitions
    THEN IF name \in DOMAIN st.values
         THEN Returned(st.values[name].value)
         ELSE IF st.allow_defaults /\ st.definitions[name].has_default
              THEN Returned(st.definitions[name].default)
              ELSE VariableNotDefined(name, consumer)
    ELSE VariableNotPopulated(name, consumer)

\* VariableStore.get
StoreGet(st, name, consumer) ==
    IF name \in DOMAIN st.definitions
    THEN IF name \in DOMAIN st.values
         THEN Returned(st.values[name].value)
         ELSE IF st.allow_defaults /\ st.definitions[name].has_default
              THEN Returned(st.definitions[name].default)
              ELSE VariableNotPopulated(name, consumer)
    ELSE VariableNotDefined(name, consumer)


(***************************************************************************)
(* The files, the environment and the command line.                        *)
(***************************************************************************)
MainTf == <<"main", ".tf">>
XTfJson == <<"x", ".tf", ".json">>
GenTfJson == <<"gen", ".tf", ".json">>
TerraformTfvars == <<"terraform", ".tfvars">>
TerraformTfvarsJson == <<"terraform", ".tfvars", ".json">>
AAutoTfvarsJson == <<"a", ".auto", ".tfvars", ".json">>
BAutoTfvars == <<"b", ".auto", ".tfvars">>
GAutoTfvarsJson == <<"g", ".auto", ".tfvars", ".json">>
VarsTfvarsJson == <<"vars", ".tfvars", ".json">>
NotesTxt == <<"notes", ".txt">>

VarA == <<"A">>
VarN == <<"N">>
VarG == <<"G">>

\* What the parser returns for each file once it exists:
\* parse_tf_file_for_variables and parse_json_file_for_blocks give blocks, a
\* "variable" block maps names to their bodies; parse_tfvars_file_for_variables
\* gives the assignments.
VariableBlock(name, body) == [variable |-> <<[name |-> name, block |-> body]>>]

ParsedBlocks(name) ==
    CASE name = MainTf ->
           <<VariableBlock(VarA, [default |-> <<"0">>]),
             [resource |-> <<"r">>],
             VariableBlock(VarN, [type |-> <<"string">>])>>
      [] name = XTfJson -> <<VariableBlock(VarA, [type |-> <<"string">>])>>
      [] name = GenTfJson -> <<VariableBlock(VarG, [default |-> <<"9">>])>>
      [] name = TerraformTfvarsJson -> <<<< <<VarA, <<"5">>>> >>>>
      [] name = AAutoTfvarsJson -> <<<< <<VarN, <<"1">>>> >>>>
      [] name = GAutoTfvarsJson -> <<<< <<VarN, <<"6">>>> >>>>
      [] name = VarsTfvarsJson -> <<<< <<VarA, <<"7">>>> >>>>
      [] OTHER -> << >>

ParsedTfvars(name) ==
    CASE name = TerraformTfvars -> << <<VarA, <<"2">>>> >>
      [] name = BAutoTfvars -> << <<VarN, <<"2">>>>, <<VarA, <<"3">>>> >>
      [] OTHER -> << >>

\* path.name and path.parent of a path written with "/" tokens.
RECURSIVE LastSlash(_, _)
LastSlash(path, i) ==
    IF i = 0 THEN 0
    ELSE IF path[i] = "/" THEN i
    ELSE LastSlash(path, i - 1)

PathName(path) == DropPrefix(path, LastSlash(path, Len(path)))

\* os.path.abspath(path.parent) == os.path.abspath("."), for relative paths
\* without "." or ".." steps.
InCurrentDirectory(path) == LastSlash(path, Len(path)) = 0

(***************************************************************************)
(* Extraction of the variables of a file.                                  *)
(***************************************************************************)
RECURSIVE FlattenSeq(_)
FlattenSeq(ss) ==
    IF ss = << >> THEN << >> ELSE Head(ss) \o FlattenSeq(Tail(ss))

\* get_variables_from_block
GetVariablesFromBlock(block, source) ==
    IF "variable" \notin DOMAIN block THEN << >>
    ELSE [i \in DOMAIN block.variable |->
            LET e == block.variable[i]
            IN  IF "default" \in DOMAIN e.block
                THEN VariableDefinition(e.name, source, TRUE, e.block.default)
                ELSE VariableDefinition(e.name, source, FALSE, NoStr)]

\* get_variables_from_tf_file and get_variables_from_tf_json_file
GetVariablesFromTfFile(path) ==
    LET blocks == ParsedBlocks(PathName(path))
    IN  FlattenSeq([i \in DOMAIN blocks |->
                      GetVariablesFromBlock(blocks[i], PathName(path))])

\* get_variables_from_tfvars_file
GetVariablesFromTfvarsFile(path) ==
    LET contents == ParsedTfvars(PathName(path))
    IN  [i \in DOMAIN contents |->
           VariableValue(contents[i][1], contents[i][2], PathName(path))]

\* get_variables_from_tfvars_json_file
GetVariablesFromTfvarsJsonFile(path) ==
    LET blocks == ParsedBlocks(PathName(path))
    IN  FlattenSeq([i \in DOMAIN blocks |->
                      [j \in DOMAIN blocks[i] |->
                         VariableValue(blocks[i][j][1], blocks[i][j][2],
                                       PathName(path))]])

\* get_variables_from_file: the variables yielded, and the exception that
\* ends the iteration if there is one.
GetVariablesFromFile(path) ==
    LET name == PathName(path)
    IN  IF EndsWith(name, <<".tf">>)
        THEN [vars |-> GetVariablesFromTfFile(path), out |-> Ok]
        ELSE IF EndsWith(name, <<".tfvars">>)
        THEN [vars |-> GetVariablesFromTfvarsFile(path), out |-> Ok]
        ELSE IF EndsWith(name, <<".tf", ".json">>)
        THEN [vars |-> GetVariablesFromTfFile(path), out |-> Ok]
        ELSE IF EndsWith(name, <<".tfvars", ".json">>)
        THEN [vars |-> GetVariablesFromTfvarsJsonFile(path), out |-> Ok]
        ELSE [vars |-> << >>, out |-> PyError("ValueError", name)]

(***************************************************************************)
(* TerraformVariableStore.  The environment a load reads is env: the       *)
(* directory listing, the keys of files_to_create in their order, the      *)
(* order the set tf_file_names iterates in, os.environ and sys.argv[1:].   *)
(***************************************************************************)
\* file_created allowing defaults without looking at what is still awaited.
FileCreatedAlwaysEnables(st, name) ==
    EnableDefaults([st EXCEPT !.files_created = @ \cup {name},
                              !.tfvars_waiting = @ \ {name}])

\* TerraformVariableStore.file_created
FileCreatedOn(st, name) ==
    LET s1 == [st EXCEPT !.files_created = @ \cup {name},
                         !.tfvars_waiting = @ \ {name}]
    IN  IF s1.tfvars_waiting = {} THEN EnableDefaults(s1) ELSE s1

\* tfvars_wait_for marking the name whether or not it was reported created.
TfvarsWaitForAlways(st, name) ==
    DisableDefaults([st EXCEPT !.tfvars_waiting = @ \cup {name}])

\* tfvars_wait_for recording the wait without disabling the defaults.
TfvarsWaitForKeepsDefaults(st, name) ==
    IF name \notin st.files_created
    THEN [st EXCEPT !.tfvars_waiting = @ \cup {name}]
    ELSE st

\* TerraformVariableStore.tfvars_wait_for
TfvarsWaitFor(st, name) ==
    IF name \notin st.files_created
    THEN DisableDefaults([st EXCEPT !.tfvars_waiting = @ \cup {name}])
    ELSE st

\* The decorator once of pretf/util.py around load: whether this call runs
\* the body.  The flag is raised before the body runs, so the calls add makes
\* from inside the body return at once.
OnceRuns(st) == ~st.load_has_run

OnceMark(st) == [st EXCEPT !.load_has_run = TRUE]

\* add comparing with the stored Value whatever allow_change says.
AddCheckedAlways(st, var, allow_change) ==
    IF var.name \in DOMAIN st.values
    THEN IF "value" \notin DOMAIN var
         THEN [st |-> st, out |-> PyError("AttributeError", var)]
         ELSE IF var.value # st.values[var.name].value
         THEN [st |-> st,
               out |-> VariableNotConsistent(st.values[var.name], var)]
         ELSE StoreAdd(st, var)
    ELSE StoreAdd(st, var)

\* add storing the incoming Value before it raises NotConsistent.
AddCheckedStoresFirst(st, var, allow_change) ==
    IF ~allow_change /\ var.name \in DOMAIN st.values
    THEN IF "value" \notin DOMAIN var
         THEN [st |-> st, out |-> PyError("AttributeError", var)]
         ELSE IF var.value # st.values[var.name].value
         THEN [st |-> StoreAdd(st, var).st,
               out |-> VariableNotConsistent(st.values[var.name], var)]
         ELSE StoreAdd(st, var)
    ELSE StoreAdd(st, var)

\* add never comparing with the stored Value.
AddUnchecked(st, var, allow_change) == StoreAdd(st, var)

\* TerraformVariableStore.add, lines 88-95: what follows the call of load.
AddChecked(st, var, allow_change) ==
    IF ~allow_change /\ var.name \in DOMAIN st.values
    THEN IF "value" \notin DOMAIN var
         THEN [st |-> st, out |-> PyError("AttributeError", var)]
         ELSE IF var.value # st.values[var.name].value
         THEN [st |-> st,
               out |-> VariableNotConsistent(st.values[var.name], var)]
         ELSE StoreAdd(st, var)
    ELSE StoreAdd(st, var)

\* TerraformVariableStore.add called while load's body runs: its own call of
\* load returns at once.
AddInLoad(st, var) == AddChecked(st, var, TRUE)

\* for var in vars: self.add(var), up to the first exception.  (The set
\* {e} in r \in {e} has e evaluated once, where it is used several times.)
RECURSIVE AddAll(_, _)
AddAll(st, vars) ==
    IF vars = << >> THEN [st |-> st, out |-> Ok]
    ELSE CHOOSE done \in
            {IF Raised(r.out) THEN r ELSE AddAll(r.st, Tail(vars)) :
               r \in {AddInLoad(st, Head(vars))}} : TRUE

\* for var in get_variables_from_file(path): self.add(var)
AddFromFile(st, path) ==
    CHOOSE done \in
       {IF Raised(r.out) THEN r
        ELSE [st |-> r.st, out |-> GetVariablesFromFile(path).out] :
          r \in {AddAll(st, GetVariablesFromFile(path).vars)}} : TRUE

\* The local variable name of load: unbound, or the string last assigned.
Unbound == [bound |-> FALSE]

Bound(s) == [bound |-> TRUE, v |-> s]

\* load, lines 139-147: the classification of future_names.
IsAutoTfvars(name) ==
    \/ EndsWith(name, <<".auto", ".tfvars">>)
    \/ EndsWith(name, <<".auto", ".tfvars", ".json">>)

IsDefaultTfvars(name) == name \in {TerraformTfvars, TerraformTfvarsJson}

IsTf(name) == EndsWith(name, <<".tf">>) \/ EndsWith(name, <<".tf", ".json">>)

FutureNames(env) == env.listdir \o env.files_to_create

AutoTfvarsFileNames(env) ==
    {n \in SeqToSet(FutureNames(env)) : IsAutoTfvars(n)}

DefaultTfvarsFileNames(env) ==
    {n \in SeqToSet(FutureNames(env)) : ~IsAutoTfvars(n) /\ IsDefaultTfvars(n)}

TfFileNames(env) ==
    {n \in SeqToSet(FutureNames(env)) :
        ~IsAutoTfvars(n) /\ ~IsDefaultTfvars(n) /\ IsTf(n)}

\* load, lines 150-153: a declaration file, read unless it is to be created.
LoadDefinitions(st, name, env) ==
    IF name \notin SeqToSet(env.files_to_create)
    THEN AddFromFile(st, name)
    ELSE [st |-> st, out |-> Ok]

\* load, lines 157-160: an environment variable.
LoadEnviron(st, item) ==
    LET key == item[1]
        value == item[2]
    IN  IF StartsWith(key, <<"TF_VAR_">>)
        THEN AddInLoad(st, VariableValue(DropPrefix(key, 1), value, key))
        ELSE [st |-> st, out |-> Ok]

\* load reading a value file that is to be created when a file of that name
\* is on disk.
LoadTfvarsReadsStale(st, name, env) ==
    IF name \in SeqToSet(env.files_to_create)
          /\ name \notin SeqToSet(env.listdir)
    THEN [st |-> TfvarsWaitFor(st, name), out |-> Ok]
    ELSE AddFromFile(st, name)

\* load, lines 164-169 and 173-178: wait for a value file or read it.
LoadTfvars(st, name, env) ==
    IF name \in SeqToSet(env.files_to_create)
    THEN [st |-> TfvarsWaitFor(st, name), out |-> Ok]
    ELSE AddFromFile(st, name)

\* load, lines 183-187: a -var option.  The local name is assigned by the
\* split, before add is called.
LoadVarOption(st, arg, local) ==
    LET words == ShlexSplit(DropPrefix(arg, 1))
    IN  IF words = << >>
        THEN [st |-> st, out |-> PyError("IndexError", arg), local |-> local]
        ELSE LET parts == SplitOnce(words[1], "=")
             IN  IF Len(parts) # 2
                 THEN [st |-> st, out |-> PyError("ValueError", arg),
                       local |-> local]
                 ELSE AddInLoad(st, VariableValue(parts[1], parts[2], arg))
                        @@ [local |-> Bound(parts[1])]

\* The key load waits for when a -var-file is to be created (line 195).
VarFileWaitKey(path, local) == local

\* load, lines 188-198: a -var-file option.
LoadVarFileOption(st, arg, local, env) ==
    LET path == DropPrefix(arg, 1)
        will_create == /\ InCurrentDirectory(path)
                       /\ PathName(path) \in SeqToSet(env.files_to_create)
    IN  IF will_create
        THEN LET key == VarFileWaitKey(path, local)
             IN  IF key.bound
                 THEN [st |-> TfvarsWaitFor(st, key.v), out |-> Ok]
                 ELSE [st |-> st, out |-> PyError("UnboundLocalError", arg)]
        ELSE AddFromFile(st, path)

\* load, lines 182-198: one argument of the command line.
LoadArgv(st, arg, local, env) ==
    IF StartsWith(arg, <<"-var=">>)
    THEN LoadVarOption(st, arg, local)
    ELSE IF StartsWith(arg, <<"-var-file=">>)
    THEN LoadVarFileOption(st, arg, local, env) @@ [local |-> local]
    ELSE [st |-> st, out |-> Ok, local |-> local]

\* The iterations of the for loops of load, in the order they run.
LoopOver(loop, items) == [i \in DOMAIN items |-> [loop |-> loop, item |-> items[i]]]

\* load reading the environment variables after the value files.
LoadIterationsEnvironAfterFiles(env) ==
    LoopOver("future_names", FutureNames(env))
       \o LoopOver("tf_file_names", env.tf_order)
       \o LoopOver("default_tfvars_file_names",
                   Sorted(DefaultTfvarsFileNames(env)))
       \o LoopOver("auto_tfvars_file_names", Sorted(AutoTfvarsFileNames(env)))
       \o LoopOver("environ", env.environ)
       \o LoopOver("argv", env.argv)

\* The names of a set in the order future_names lists them.
RECURSIVE AsListed(_, _)
AsListed(names, S) ==
    IF names = << >> THEN << >>
    ELSE IF Head(names) \in S
    THEN <<Head(names)>> \o AsListed(Tail(names), S \ {Head(names)})
    ELSE AsListed(Tail(names), S)

\* load iterating over the automatic value files without sorted().
LoadIterationsAutoUnsorted(env) ==
    LoopOver("future_names", FutureNames(env))
       \o LoopOver("tf_file_names", env.tf_order)
       \o LoopOver("environ", env.environ)
       \o LoopOver("default_tfvars_file_names",
                   Sorted(DefaultTfvarsFileNames(env)))
       \o LoopOver("auto_tfvars_file_names",
                   AsListed(FutureNames(env), AutoTfvarsFileNames(env)))
       \o LoopOver("argv", env.argv)

IsVarOption(arg) == StartsWith(arg, <<"-var=">>)

IsNotVarOption(arg) == ~IsVarOption(arg)

\* load applying the -var options of the command line before its -var-file
\* options.
LoadIterationsVarsBeforeVarFiles(env) ==
    LoopOver("future_names", FutureNames(env))
       \o LoopOver("tf_file_names", env.tf_order)
       \o LoopOver("environ", env.environ)
       \o LoopOver("default_tfvars_file_names",
                   Sorted(DefaultTfvarsFileNames(env)))
       \o LoopOver("auto_tfvars_file_names", Sorted(AutoTfvarsFileNames(env)))
       \o LoopOver("argv", SelectSeq(env.argv, IsVarOption)
                              \o SelectSeq(env.argv, IsNotVarOption))

LoadIterations(env) ==
    LoopOver("future_names", FutureNames(env))
       \o LoopOver("tf_file_names", env.tf_order)
       \o LoopOver("environ", env.environ)
       \o LoopOver("default_tfvars_file_names",
                   Sorted(DefaultTfvarsFileNames(env)))
       \o LoopOver("auto_tfvars_file_names", Sorted(AutoTfvarsFileNames(env)))
       \o LoopOver("argv", env.argv)

\* One iteration: from the store and the local name before it, the store,
\* the local name and the exception raised, if any, after it.
LoadIteration(c, it, env) ==
    IF it.loop = "future_names"
    THEN [st |-> c.st, out |-> Ok, local |-> Bound(it.item)]
    ELSE IF it.loop = "tf_file_names"
    THEN LoadDefinitions(c.st, it.item, env) @@ [local |-> Bound(it.item)]
    ELSE IF it.loop = "environ"
    THEN LoadEnviron(c.st, it.item) @@ [local |-> c.local]
    ELSE IF it.loop = "argv"
    THEN LoadArgv(c.st, it.item, c.local, env)
    ELSE LoadTfvars(c.st, it.item, env) @@ [local |-> Bound(it.item)]

\* The iterations in turn, up to the first exception.
RECURSIVE LoadLoops(_, _, _)
LoadLoops(c, its, env) ==
    IF its = << >> THEN c
    ELSE CHOOSE done \in
            {IF Raised(d.out) THEN d ELSE LoadLoops(d, Tail(its), env) :
               d \in {LoadIteration(c, Head(its), env)}} : TRUE

\* The body of load.
LoadBody(st, env) ==
    CHOOSE done \in
       {[st |-> d.st, out |-> d.out] :
          d \in {LoadLoops([st |-> st, out |-> Ok, local |-> Unbound],
                           LoadIterations(env), env)}} : TRUE

\* TerraformVariableStore.load under the decorator once.
\* load without its decorator: every call runs the body.
LoadEveryTime(st, env) == LoadBody(OnceMark(st), env)

\* TerraformVariableStore.load, lines 117-118: the decorated method.
Load(st, env) ==
    IF OnceRuns(st) THEN LoadBody(OnceMark(st), env)
    ELSE [st |-> st, out |-> Ok]

\* add inserting the item before it calls load.
ResolverAddBeforeLoad(st, var, allow_change, env) ==
    CHOOSE done \in
       {IF Raised(a.out) THEN a ELSE Load(a.st, env) :
          a \in {AddChecked(st, var, allow_change)}} : TRUE

\* TerraformVariableStore.add
ResolverAdd(st, var, allow_change, env) ==
    CHOOSE done \in
       {IF Raised(l.out) THEN l ELSE AddChecked(l.st, var, allow_change) :
          l \in {Load(st, env)}} : TRUE

\* tfvars_waiting_for answering without calling load.
TfvarsWaitingForNoLoad(st, name, env) ==
    [st |-> st, out |-> Returned(name \in st.tfvars_waiting)]

\* TerraformVariableStore.tfvars_waiting_for
TfvarsWaitingFor(st, name, env) ==
    CHOOSE done \in
       {IF Raised(l.out) THEN l
        ELSE [st |-> l.st, out |-> Returned(name \in l.st.tfvars_waiting)] :
          l \in {Load(st, env)}} : TRUE

(***************************************************************************)
(* The state: one TerraformVariableStore, its environment, the get calls   *)
(* in progress and the outcome of the last call made.                      *)
(***************************************************************************)
VARIABLES
    store,            \* the attributes of the TerraformVariableStore
    files_to_create,  \* the keys of _files_to_create
    disk,             \* the files of the current directory
    environ,          \* os.environ, a sequence of <<key, value>>
    argv,             \* sys.argv[1:]
    stack,            \* the get calls whose process_jobs is running
    result            \* the last call completed and its outcome

vars == <<store, files_to_create, disk, environ, argv, stack, result>>

\* What the instance can be given and asked.
Names == {VarA, VarN}

Consumers == {<<"job", ".tf", ".py">>, <<"vars", ".tfvars", ".py">>}

Consumer == <<"job", ".tf", ".py">>

\* The files the Job Driver reports and callers ask about.
ReportedFiles == {TerraformTfvarsJson, GAutoTfvarsJson}

\* What callers add after the load: the variables of the files the Job
\* Driver has produced.
AddPool ==
    {VariableValue(VarA, <<"5">>, TerraformTfvarsJson),
     VariableDefinition(VarA, GenTfJson, TRUE, <<"9">>)}

TfVarA == << <<"TF_VAR_", "A">>, <<"1">> >>

PathEntry == << <<"PATH">>, <<"/bin">> >>

VarOption(name, value) == <<"-var=">> \o name \o <<"=">> \o value

VarFileOption(path) == <<"-var-file=">> \o path

\* The sequences of at most n different elements of S.
SeqsUpTo(S, n) ==
    {q \in UNION {[1..k -> S] : k \in 0..n} :
        \A i, j \in DOMAIN q : i # j => q[i] # q[j]}

\* A -var-file names a file that is there to read or is to be created.
ArgReadable(arg, files) ==
    StartsWith(arg, <<"-var-file=">>) =>
        PathName(DropPrefix(arg, 1)) \in files

\* The environments a load may see: the listing, the dictionary keys and
\* the set tf_file_names come in any order.
Envs ==
    IF store.load_has_run
    THEN {[listdir |-> << >>, files_to_create |-> << >>, tf_order |-> << >>,
           environ |-> environ, argv |-> argv]}
    ELSE {[listdir |-> l, files_to_create |-> k, tf_order |-> t,
           environ |-> environ, argv |-> argv] :
            l \in Perms(disk), k \in Perms(files_to_create),
            t \in Perms({n \in disk \cup files_to_create :
                           ~IsAutoTfvars(n) /\ ~IsDefaultTfvars(n) /\ IsTf(n)})}

NoCall == [op |-> "none", out |-> Ok]

\* A new TerraformVariableStore in a directory, an environment and under a
\* command line drawn from the given sets.
InitWith(DiskFiles, OutputFiles, Environs, ArgPool) ==
    /\ store = NewStore
    /\ files_to_create \in SUBSET OutputFiles
    /\ disk \in SUBSET DiskFiles
    /\ environ \in Environs
    /\ argv \in {a \in SeqsUpTo(ArgPool, MaxArgs) :
                   \A i \in DOMAIN a :
                      ArgReadable(a[i], disk \cup files_to_create)}
    /\ stack = << >>
    /\ result = NoCall

Init ==
    InitWith({MainTf, XTfJson},
             {TerraformTfvarsJson, GAutoTfvarsJson},
             {<<PathEntry>>, <<PathEntry, TfVarA>>},
             {VarOption(VarA, <<"4">>)})

\* store.load()
CallLoad ==
    /\ \E env \in Envs :
          \E r \in {Load(store, env)} :
              /\ store' = r.st
              /\ result' = [op |-> "load", out |-> r.out]
    /\ UNCHANGED <<files_to_create, disk, environ, argv, stack>>

\* store.add(var, allow_change)
Add(var, allow_change) ==
    /\ \E env \in Envs :
          \E l \in {Load(store, env)} :
          \E r \in {ResolverAdd(store, var, allow_change, env)} :
              /\ store' = r.st
              /\ result' = [op |-> "add", var |-> var,
                            allow_change |-> allow_change,
                            step |-> IF Raised(l.out) THEN "load" ELSE "add",
                            out |-> r.out]
    /\ UNCHANGED <<files_to_create, disk, environ, argv, stack>>

\* store.file_created(name)
FileCreated(name) ==
    /\ store' = FileCreatedOn(store, name)
    /\ result' = [op |-> "file_created", name |-> name, out |-> Ok]
    /\ UNCHANGED <<files_to_create, disk, environ, argv, stack>>

\* store.tfvars_wait_for(name)
CallTfvarsWaitFor(name) ==
    /\ store' = TfvarsWaitFor(store, name)
    /\ result' = [op |-> "tfvars_wait_for", name |-> name, out |-> Ok]
    /\ UNCHANGED <<files_to_create, disk, environ, argv, stack>>

\* store.tfvars_waiting_for(name)
WaitingFor(name) ==
    /\ \E env \in Envs :
          \E l \in {Load(store, env)} :
          \E r \in {TfvarsWaitingFor(store, name, env)} :
              /\ store' = r.st
              /\ result' = [op |-> "tfvars_waiting_for", name |-> name,
                            step |-> IF Raised(l.out)
                                     THEN "load" ELSE "tfvars_waiting_for",
                            out |-> r.out]
    /\ UNCHANGED <<files_to_create, disk, environ, argv, stack>>

\* name in store.proxy(consumer): VariableProxy.__contains__
Contains(name) ==
    /\ result' = [op |-> "contains", name |-> name,
                  out |-> Returned(StoreContains(store, name))]
    /\ UNCHANGED <<store, files_to_create, disk, environ, argv, stack>>

\* get looking the name up right after load, without the call of
\* process_jobs.
GetCallLookupFirst(name, consumer) ==
    /\ Len(stack) < MaxDepth
    /\ \E env \in Envs :
          \E l \in {Load(store, env)} :
              /\ store' = l.st
              /\ result' = [op |-> "get", name |-> name,
                            consumer |-> consumer,
                            step |-> IF Raised(l.out) THEN "load" ELSE "lookup",
                            out |-> IF Raised(l.out) THEN l.out
                                    ELSE StoreGet(l.st, name, consumer)]
    /\ UNCHANGED <<files_to_create, disk, environ, argv, stack>>

\* TerraformVariableStore.get, lines 113-114: load, then the call of
\* process_jobs(until=name), which runs until GetReturn or GetRaise.
GetCall(name, consumer) ==
    /\ Len(stack) < MaxDepth
    /\ \A i \in DOMAIN stack : stack[i].name # name
    /\ \E env \in Envs :
          \E l \in {Load(store, env)} :
              /\ store' = l.st
              /\ IF Raised(l.out)
                 THEN /\ stack' = stack
                      /\ result' = [op |-> "get", name |-> name,
                                    consumer |-> consumer, step |-> "load",
                                    out |-> l.out]
                 ELSE /\ stack' = Append(stack, [name |-> name,
                                                 consumer |-> consumer])
                      /\ result' = [op |-> "process_jobs", until |-> name,
                                    out |-> Ok]
    /\ UNCHANGED <<files_to_create, disk, environ, argv>>

\* TerraformVariableStore.get, line 115: process_jobs has returned.
GetReturn ==
    /\ stack # << >>
    /\ LET frame == stack[Len(stack)]
       IN  result' = [op |-> "get", name |-> frame.name,
                      consumer |-> frame.consumer, step |-> "lookup",
                      out |-> StoreGet(store, frame.name, frame.consumer)]
    /\ stack' = SubSeq(stack, 1, Len(stack) - 1)
    /\ UNCHANGED <<store, files_to_create, disk, environ, argv>>

\* TerraformVariableStore.get, line 114: process_jobs lets through the
\* exception of a call the Job Driver made.
GetRaise ==
    /\ stack # << >>
    /\ result.op # "process_jobs"
    /\ Raised(result.out)
    /\ LET frame == stack[Len(stack)]
       IN  result' = [op |-> "get", name |-> frame.name,
                      consumer |-> frame.consumer, step |-> "process_jobs",
                      out |-> result.out]
    /\ stack' = SubSeq(stack, 1, Len(stack) - 1)
    /\ UNCHANGED <<store, files_to_create, disk, environ, argv>>

\* A TerraformVariableStore whose sources are drawn more widely, and that
\* is only loaded and read.
InitLoad ==
    InitWith({MainTf, TerraformTfvars, TerraformTfvarsJson, AAutoTfvarsJson,
              BAutoTfvars},
             {TerraformTfvarsJson, VarsTfvarsJson},
             {<<PathEntry>>, <<PathEntry, TfVarA>>},
             {VarOption(VarA, <<"4">>), <<"-var=">> \o VarN,
              VarFileOption(BAutoTfvars), VarFileOption(VarsTfvarsJson)})

NextLoad ==
    \/ CallLoad
    \/ \E name \in Names : stack = << >> /\ GetCall(name, Consumer)
    \/ GetReturn

SpecLoad == InitLoad /\ [][NextLoad]_vars

\* A TerraformVariableStore under command lines that assign A several
\* times, by -var options and by -var-file options of files on disk.
InitArgv ==
    InitWith({MainTf, TerraformTfvars, BAutoTfvars},
             {},
             {<<PathEntry>>},
             {VarOption(VarA, <<"4">>), VarOption(VarA, <<"5">>),
              VarFileOption(TerraformTfvars), VarFileOption(BAutoTfvars)})

SpecArgv == InitArgv /\ [][NextLoad]_vars

\* A TerraformVariableStore whose default and automatic value files are on
\* disk, to be created, or both.
InitPending ==
    InitWith({MainTf, TerraformTfvars, TerraformTfvarsJson, AAutoTfvarsJson,
              BAutoTfvars},
             {TerraformTfvarsJson, AAutoTfvarsJson},
             {<<PathEntry>>, <<PathEntry, TfVarA>>},
             {})

SpecPending == InitPending /\ [][NextLoad]_vars

\* A TerraformVariableStore one of whose declaration files, gen.tf.json, is
\* to be created, a stale copy being on disk or not; G is the name it
\* declares.
InitDeclared ==
    InitWith({MainTf, GenTfJson},
             {GenTfJson, VarsTfvarsJson},
             {<<PathEntry>>, <<PathEntry, TfVarA>>},
             {VarOption(VarA, <<"4">>), VarFileOption(VarsTfvarsJson)})

NextDeclared ==
    \/ CallLoad
    \/ \E name \in {VarA, VarG} : stack = << >> /\ GetCall(name, Consumer)
    \/ GetReturn

SpecDeclared == InitDeclared /\ [][NextDeclared]_vars

\* The Values the Job Driver adds for the files it produces.
DriverAddPool ==
    {VariableValue(VarA, <<"5">>, TerraformTfvarsJson),
     VariableValue(VarA, <<"7">>, VarsTfvarsJson)}

\* A TerraformVariableStore whose value files are produced by the Job
\* Driver: it reports them created and adds their Values, and names are
\* read.
InitDriver ==
    InitWith({MainTf},
             {TerraformTfvarsJson, VarsTfvarsJson},
             {<<PathEntry>>, <<PathEntry, TfVarA>>},
             {VarOption(VarA, <<"4">>), VarOption(VarA, <<"5">>),
              VarFileOption(VarsTfvarsJson)})

NextDriver ==
    \/ \E var \in DriverAddPool, allow_change \in BOOLEAN :
          Add(var, allow_change)
    \/ \E name \in files_to_create : FileCreated(name)
    \/ \E name \in Names : stack = << >> /\ GetCall(name, Consumer)
    \/ GetReturn

SpecDriver == InitDriver /\ [][NextDriver]_vars

\* The same store read re-entrantly: during process_jobs the Job Driver
\* adds Values, reports files and reads other names.  A call of
\* process_jobs is a finite run of the Job Driver, so the get that made it
\* is not left waiting for ever: the return of a get at any depth that can
\* happen again and again does happen.
NextReentrant ==
    \/ \E var \in DriverAddPool, allow_change \in BOOLEAN :
          Add(var, allow_change)
    \/ \E name \in files_to_create : FileCreated(name)
    \/ \E name \in Names : GetCall(name, Consumer)
    \/ GetReturn
    \/ GetRaise

SpecReentrant ==
    /\ InitDriver
    /\ [][NextReentrant]_vars
    /\ \A depth \in 1..MaxDepth : SF_vars(GetReturn /\ Len(stack) = depth)

Next ==
    \/ CallLoad
    \/ \E var \in AddPool, allow_change \in BOOLEAN : Add(var, allow_change)
    \/ \E name \in ReportedFiles : FileCreated(name)
    \/ \E name \in ReportedFiles : CallTfvarsWaitFor(name)
    \/ \E name \in ReportedFiles : WaitingFor(name)
    \/ \E name \in Names : Contains(name)
    \/ \E name \in Names : GetCall(name, Consumer)
    \/ GetReturn
    \/ GetRaise

Spec == Init /\ [][Next]_vars

(***************************************************************************)
(* Properties of the base store's reads.                                   *)
(***************************************************************************)
\* The order of decisions stated for get: Value, default, NotDefined,
\* NotPopulated.
GetValueFirst(st, name, consumer) ==
    IF name \in DOMAIN st.values THEN Returned(st.values[name].value)
    ELSE IF /\ name \in DOMAIN st.definitions
            /\ st.definitions[name].has_default
            /\ st.allow_defaults
    THEN Returned(st.definitions[name].default)
    ELSE IF name \notin DOMAIN st.definitions
    THEN VariableNotDefined(name, consumer)
    ELSE VariableNotPopulated(name, consumer)

\* The order with the Definition asked for first.
GetDefinitionFirst(st, name, consumer) ==
    IF name \notin DOMAIN st.definitions
    THEN VariableNotDefined(name, consumer)
    ELSE IF name \in DOMAIN st.values THEN Returned(st.values[name].value)
    ELSE IF st.definitions[name].has_default /\ st.allow_defaults
    THEN Returned(st.definitions[name].default)
    ELSE VariableNotPopulated(name, consumer)

\* A get has just looked the name up in the store.
LookedUp == result.op = "get" /\ result.step = "lookup"

\* C1 as stated: in every state get returns the Value if there is one, else
\* the allowed default, else fails with NotDefined when there is no
\* Definition and with NotPopulated otherwise.
C1_GetValueFirst ==
    /\ \A name \in Names, consumer \in Consumers :
          StoreGet(store, name, consumer) = GetValueFirst(store, name, consumer)
    /\ LookedUp =>
          result.out = GetValueFirst(store, result.name, result.consumer)

\* C1 amended: get fails with NotDefined whenever the name has no Definition,
\* also when it has a Value; with a Definition it returns the Value if there
\* is one, else the allowed default, else fails with NotPopulated.  Both
\* failures carry the name and the consumer.
C1_GetDefinitionFirst ==
    /\ \A name \in Names, consumer \in Consumers :
          StoreGet(store, name, consumer)
             = GetDefinitionFirst(store, name, consumer)
    /\ LookedUp =>
          result.out = GetDefinitionFirst(store, result.name, result.consumer)

\* A get has failed with NotDefined on a name that has a Value.
C1_Witness ==
    /\ LookedUp
    /\ result.out = VariableNotDefined(result.name, result.consumer)
    /\ result.name \in DOMAIN store.values

\* C2 as stated: contains is true exactly when the name has a Value, or a
\* Definition with a default while defaults are allowed.
C2_ContainsValueFirst ==
    /\ \A name \in Names :
          StoreContains(store, name)
             <=> \/ name \in DOMAIN store.values
                 \/ /\ name \in DOMAIN store.definitions
                    /\ store.definitions[name].has_default
                    /\ store.allow_defaults
    /\ result.op = "contains" =>
          result.out.value
             <=> \/ result.name \in DOMAIN store.values
                 \/ /\ result.name \in DOMAIN store.definitions
                    /\ store.definitions[result.name].has_default
                    /\ store.allow_defaults

\* Whether the store can answer a read of name: it has a Definition, and a
\* Value or an allowed default.
Readable(st, name) ==
    /\ name \in DOMAIN st.definitions
    /\ \/ name \in DOMAIN st.values
       \/ st.definitions[name].has_default /\ st.allow_defaults

\* C2 amended: contains is true exactly when the name has a Definition and
\* either a Value, or a default while defaults are allowed; a Value without
\* a Definition does not count.
C2_ContainsDefinitionFirst ==
    /\ \A name \in Names : StoreContains(store, name) <=> Readable(store, name)
    /\ result.op = "contains" =>
          (result.out.value <=> Readable(store, result.name))

\* contains has answered false for a name that has a Value.
C2_Witness ==
    /\ result.op = "contains"
    /\ result.out = Returned(FALSE)
    /\ result.name \in DOMAIN store.values

(***************************************************************************)
(* Properties of add.                                                      *)
(***************************************************************************)
\* The Definitions the files and the callers of the model hold.
AllDefinitions ==
    SeqToSet(GetVariablesFromTfFile(MainTf))
       \cup SeqToSet(GetVariablesFromTfFile(XTfJson))
       \cup {var \in AddPool : var.cls = "VariableDefinition"}

AllValues == {var \in AddPool : var.cls = "VariableValue"}

C4_NotConsistent ==
    [][\A var \in AllValues, allow_change \in BOOLEAN :
         (/\ result'.op = "add"
          /\ result'.var = var
          /\ result'.allow_change = allow_change) =>
            \E env \in Envs : \E l \in {Load(store, env)} :
               LET stored == l.st.values
                   conflict == /\ ~allow_change
                               /\ var.name \in DOMAIN stored
                               /\ stored[var.name].value # var.value
               IN  \/ Raised(l.out)
                   \/ /\ conflict
                      /\ result'.out
                            = VariableNotConsistent(stored[var.name], var)
                      /\ store' = l.st
                   \/ /\ ~conflict
                      /\ result'.out = Ok
                      /\ store'.values[var.name] = var
                      /\ \A n \in DOMAIN stored \ {var.name} :
                            store'.values[n] = stored[n]]_vars

\* An add with allow_change = false has been refused: the Value that load
\* stored for the name is still there.
C4_Witness ==
    /\ result.op = "add"
    /\ result.step = "add"
    /\ ~result.allow_change
    /\ result.out.kind = "VariableNotConsistent"
    /\ result.out.new_var = result.var
    /\ result.out.old_var = store.values[result.var.name]
    /\ result.out.old_var.value # result.var.value

(***************************************************************************)
(* Properties of the wait targets.                                         *)
(***************************************************************************)
\* C5: in every reachable state (the calls made are load, add, get,
\* tfvars_waiting_for, tfvars_wait_for and file_created) defaults are
\* allowed if and only if no wait target is outstanding.
C5_DefaultsIffNotWaiting ==
    store.allow_defaults <=> store.tfvars_waiting = {}

\* A file has been reported created while another one is still awaited.
C5_Witness ==
    /\ result.op = "file_created"
    /\ result.name \in store.files_created
    /\ store.tfvars_waiting # {}
    /\ ~store.allow_defaults

\* name has a Definition with a default and no Value.
OnlyDefault(name) ==
    /\ name \in DOMAIN store.definitions
    /\ store.definitions[name].has_default
    /\ name \notin DOMAIN store.values

\* C7: for a name that has a Definition with a default and no Value, get
\* fails with NotPopulated in every state where a wait target is
\* outstanding, whichever file the target is and whichever targets have
\* been reported created, and returns the default in every state where none
\* is outstanding.
C7_DefaultsWhileWaiting ==
    \A name \in Names, consumer \in Consumers :
       OnlyDefault(name) =>
          /\ store.tfvars_waiting # {} =>
                /\ StoreGet(store, name, consumer)
                      = VariableNotPopulated(name, consumer)
                /\ (LookedUp /\ result.name = name
                       /\ result.consumer = consumer) =>
                      result.out = VariableNotPopulated(name, consumer)
          /\ store.tfvars_waiting = {} =>
                /\ StoreGet(store, name, consumer)
                      = Returned(store.definitions[name].default)
                /\ (LookedUp /\ result.name = name
                       /\ result.consumer = consumer) =>
                      result.out = Returned(store.definitions[name].default)

\* get(A) has failed with NotPopulated after one of the two awaited files
\* was reported created, the other still being awaited.
C7_Witness ==
    /\ LookedUp
    /\ OnlyDefault(result.name)
    /\ result.out = VariableNotPopulated(result.name, result.consumer)
    /\ store.files_created # {}
    /\ store.files_created \subseteq files_to_create
    /\ store.tfvars_waiting # {}

(***************************************************************************)
(* Properties of the Resolver's get and load.                              *)
(***************************************************************************)
Front(s) == SubSeq(s, 1, Len(s) - 1)

\* C8: a get runs load first; only when load has run does it call
\* process_jobs, once, with until = its name; the lookup of the base store
\* is made when that call returns, on the store as the calls made meanwhile
\* have left it, and a get ends in no other way than this lookup or an
\* exception of load or of process_jobs.
C8_GetOrder ==
    [][/\ Len(stack') > Len(stack) =>
             /\ Front(stack') = stack
             /\ store'.load_has_run
             /\ result' = [op |-> "process_jobs",
                           until |-> stack'[Len(stack')].name, out |-> Ok]
       /\ result'.op = "process_jobs" => Front(stack') = stack
       /\ (result'.op = "get" /\ result'.step = "lookup") =>
             /\ stack # << >>
             /\ stack' = Front(stack)
             /\ result'.name = stack[Len(stack)].name
             /\ result'.consumer = stack[Len(stack)].consumer
             /\ store.load_has_run
             /\ store' = store
             /\ result'.out = StoreGet(store, result'.name, result'.consumer)
       /\ (result'.op = "get" /\ result'.step = "load") =>
             /\ stack' = stack
             /\ Raised(result'.out)
       /\ Len(stack') < Len(stack) =>
             /\ stack' = Front(stack)
             /\ result'.op = "get"
             /\ result'.step \in {"lookup", "process_jobs"}
             /\ result'.name = stack[Len(stack)].name]_vars

\* terraform.tfvars.json is to be created; a get of A has returned the 5
\* that was added for that file, which has been reported created.
C8_Witness ==
    /\ LookedUp
    /\ result.name = VarA
    /\ result.out = Returned(<<"5">>)
    /\ TerraformTfvarsJson \in files_to_create
    /\ TerraformTfvarsJson \in store.files_created
    /\ store.values[VarA].source = TerraformTfvarsJson

\* C9: once load has run it stays run, and every later call of load, by
\* itself or from get, add and tfvars_waiting_for, leaves the definitions,
\* the values, the wait targets and the defaults as they are: a call of
\* load changes nothing, get and tfvars_waiting_for change nothing, add
\* changes what the add itself changes.
C9_LoadOnce ==
    /\ [](store.load_has_run =>
            \A env \in Envs : Load(store, env) = [st |-> store, out |-> Ok])
    /\ [][store.load_has_run =>
             /\ store'.load_has_run
             /\ result'.op \in {"load", "process_jobs", "tfvars_waiting_for"}
                   => store' = store /\ ~Raised(result'.out)
             /\ result'.op = "add" =>
                   /\ result'.step = "add"
                   /\ store' = AddChecked(store, result'.var,
                                          result'.allow_change).st]_vars

\* load is called again after an add replaced the Value of A by 5, and the
\* 5 is still there.
C9_Witness ==
    /\ result.op = "load"
    /\ result.out = Ok
    /\ VarA \in DOMAIN store.values
    /\ store.values[VarA].value = <<"5">>

(***************************************************************************)
(* Properties of the load protocol.                                        *)
(***************************************************************************)
\* The Value a file assigns to name, as a sequence of none or one.
FileAssigns(file, name) ==
    LET got == GetVariablesFromFile(file).vars
        at == {i \in DOMAIN got : got[i].cls = "VariableValue"
                                    /\ got[i].name = name}
    IN  IF at = {} THEN << >>
        ELSE <<got[CHOOSE i \in at : \A j \in at : j <= i]>>

\* The Value an argument of the command line assigns to name.
ArgAssigns(arg, name) ==
    IF /\ Len(arg) = 4
       /\ arg = VarOption(name, <<arg[4]>>)
    THEN <<VariableValue(name, <<arg[4]>>, arg)>>
    ELSE IF /\ Len(arg) > 1
            /\ arg = VarFileOption(Tail(arg))
    THEN FileAssigns(Tail(arg), name)
    ELSE << >>

\* The Values the sources on disk, in the environment and on the command
\* line assign to name, from the lowest precedence to the highest:
\* environment, terraform.tfvars, terraform.tfvars.json, the automatic value
\* files in lexical order, the command line in its order.
RECURSIVE FilesAssign(_, _)
FilesAssign(files, name) ==
    IF files = << >> THEN << >>
    ELSE FileAssigns(Head(files), name) \o FilesAssign(Tail(files), name)

RECURSIVE ArgsAssign(_, _)
ArgsAssign(args, name) ==
    IF args = << >> THEN << >>
    ELSE ArgAssigns(Head(args), name) \o ArgsAssign(Tail(args), name)

RECURSIVE EnvironAssigns(_, _)
EnvironAssigns(items, name) ==
    IF items = << >> THEN << >>
    ELSE (IF Head(items)[1] = <<"TF_VAR_">> \o name
          THEN <<VariableValue(name, Head(items)[2], Head(items)[1])>>
          ELSE << >>) \o EnvironAssigns(Tail(items), name)

AutoFilesOnDisk == {f \in disk : IsAutoTfvars(f)}

ByPrecedence(name) ==
    EnvironAssigns(environ, name)
       \o FilesAssign(Sorted(disk \cap {TerraformTfvars}), name)
       \o FilesAssign(Sorted(disk \cap {TerraformTfvarsJson}), name)
       \o FilesAssign(Sorted(AutoFilesOnDisk), name)
       \o ArgsAssign(argv, name)

\* No source file is pending and the command line is well formed: the load
\* reads every source and raises nothing.
AllSourcesOnDisk ==
    /\ \A f \in files_to_create :
          /\ ~IsDefaultTfvars(f)
          /\ ~IsAutoTfvars(f)
          /\ \A i \in DOMAIN argv : argv[i] # VarFileOption(f)
    /\ \A i \in DOMAIN argv :
          StartsWith(argv[i], <<"-var=">>) => Find(argv[i], "=") # 0

\* C6: with every source on disk, after the load the Value stored for a
\* name is the one of its highest source in the order environment <
\* terraform.tfvars < terraform.tfvars.json < automatic value files <
\* command line (no Value when no source assigns the name), and a get of a
\* declared name returns it.
C6_HighestPrecedenceWins ==
    (store.load_has_run /\ AllSourcesOnDisk) =>
       \A name \in Names :
          LET given == ByPrecedence(name)
          IN  /\ given = << >> => name \notin DOMAIN store.values
              /\ given # << >> =>
                    /\ name \in DOMAIN store.values
                    /\ store.values[name] = given[Len(given)]
                    /\ (LookedUp /\ result.name = name
                           /\ name \in DOMAIN store.definitions) =>
                          result.out = Returned(given[Len(given)].value)

\* A is assigned 1 by the environment, 2 by terraform.tfvars, 3 by
\* b.auto.tfvars and 4 by -var=A=4, and get(A) has returned 4.
C6_Witness ==
    /\ AllSourcesOnDisk
    /\ {MainTf, TerraformTfvars, BAutoTfvars} \subseteq disk
    /\ environ = <<PathEntry, TfVarA>>
    /\ argv = <<VarOption(VarA, <<"4">>)>>
    /\ [i \in 1..4 |-> ByPrecedence(VarA)[i].value]
          = << <<"1">>, <<"2">>, <<"3">>, <<"4">> >>
    /\ LookedUp
    /\ result.name = VarA
    /\ result.out = Returned(<<"4">>)

\* The automatic value files on disk, not to be created, that assign name.
AutoFilesAssigning(name) ==
    {f \in AutoFilesOnDisk \ files_to_create : FileAssigns(f, name) # << >>}

\* C10: after a load that raised nothing, a name that automatic value files
\* on disk assign and the command line does not has the Value of the
\* lexically last of these files, whatever the order of the listing.
C10_AutoFilesInLexicalOrder ==
    (store.load_has_run /\ AllSourcesOnDisk) =>
       \A name \in Names :
          (AutoFilesAssigning(name) # {} /\ ArgsAssign(argv, name) = << >>) =>
             \E last \in AutoFilesAssigning(name) :
                /\ \A f \in AutoFilesAssigning(name) \ {last} : StrLess(f, last)
                /\ name \in DOMAIN store.values
                /\ store.values[name] = FileAssigns(last, name)[1]

\* a.auto.tfvars.json and b.auto.tfvars both assign N and the load has
\* stored the Value of b.auto.tfvars.
C10_Witness ==
    /\ store.load_has_run
    /\ AllSourcesOnDisk
    /\ AutoFilesAssigning(VarN) = {AAutoTfvarsJson, BAutoTfvars}
    /\ ArgsAssign(argv, VarN) = << >>
    /\ store.values[VarN] = VariableValue(VarN, <<"2">>, BAutoTfvars)

(***************************************************************************)
(* Properties of the wait targets load marks.                              *)
(***************************************************************************)
\* Every -var option of the command line has its "=": load raises nothing
\* on the sources of the model.
ArgvWellFormed ==
    \A i \in DOMAIN argv :
       StartsWith(argv[i], <<"-var=">>) => Find(argv[i], "=") # 0

\* The files of the current directory a -var-file option names and that are
\* to be created.
VarFilesToCreate ==
    {f \in files_to_create : \E i \in DOMAIN argv : argv[i] = VarFileOption(f)}

\* C11 as stated: after a load that raised nothing, every file to be
\* created that a -var-file option names is awaited under its own basename,
\* and load has put nothing in the wait targets but names of files to be
\* created.
C11_WaitKeyIsBasename ==
    (store.load_has_run /\ ArgvWellFormed /\ store.files_created = {}) =>
       /\ VarFilesToCreate \subseteq store.tfvars_waiting
       /\ store.tfvars_waiting \subseteq files_to_create

(***************************************************************************)
(* Lazy generation against eager generation.                               *)
(***************************************************************************)
\* The store a load leaves when file is on disk at load time and not to be
\* created, everything else as it is.
EagerStore(file) ==
    Load(NewStore,
         [listdir |-> Sorted(disk \cup {file}),
          files_to_create |-> Sorted(files_to_create \ {file}),
          tf_order |-> Sorted({n \in disk \cup files_to_create \cup {file} :
                                 ~IsAutoTfvars(n) /\ ~IsDefaultTfvars(n)
                                    /\ IsTf(n)}),
          environ |-> environ,
          argv |-> argv]).st

\* file is one of the sources load reads when it is on disk: a default or
\* automatic value file, or the file of a -var-file option.
IsValueSource(file) ==
    \/ IsDefaultTfvars(file)
    \/ IsAutoTfvars(file)
    \/ \E i \in DOMAIN argv : argv[i] = VarFileOption(file)

\* Every Value in st comes from a source load has read, none from a file to
\* be created.
OnlyLoadedValues(st) ==
    \A n \in DOMAIN st.values : st.values[n].source \notin files_to_create

\* The Values of st other than that of name come from load.
OnlyAddedFor(st, name) ==
    \A n \in DOMAIN st.values \ {name} :
       st.values[n].source \notin files_to_create

StoreErrorKinds ==
    {"VariableAlreadyDefined", "VariableNotConsistent", "VariableNotDefined",
     "VariableNotPopulated"}

\* C13 as stated: whenever a call of the store has failed, the failure is
\* AlreadyDefined, NotConsistent, NotDefined or NotPopulated.
C13_OnlyStoreErrors ==
    Raised(result.out) => result.out.kind \in StoreErrorKinds

(***************************************************************************)
(* Re-entrant reads.                                                       *)
(***************************************************************************)
\* C14: a get made while another get is in process_jobs finds load run and
\* leaves the store as it is when it calls load; a lookup ends with a value,
\* NotDefined or NotPopulated; and every get in progress, nested or outer,
\* completes: again and again no get is in progress.
C14_ReentrantGetsComplete ==
    /\ [][(stack # << >> /\ Len(stack') > Len(stack)) =>
             /\ store.load_has_run
             /\ store' = store
             /\ \A i \in DOMAIN stack :
                   stack[i].name # stack'[Len(stack')].name]_vars
    /\ [](LookedUp =>
            result.out.kind \in {"return", "VariableNotDefined",
                                 "VariableNotPopulated"})
    /\ \A depth \in 1..MaxDepth :
          (Len(stack) = depth) ~> (Len(stack) < depth)
    /\ []<>(stack = << >>)

\* A get made by the Job Driver during the process_jobs of a get of another
\* name has completed with its lookup; the outer get is still in progress.
C14_Witness ==
    /\ Len(stack) = 1
    /\ LookedUp
    /\ result.name # stack[1].name

(***************************************************************************)
(* The order of the command line.                                          *)
(***************************************************************************)
\* C15: after a load whose -var-file options all name files on disk, the
\* Value stored for a name the command line assigns is that of the last
\* option assigning it, a -var or a -var-file alike.
C15_CommandLineInOrder ==
    (store.load_has_run /\ ArgvWellFormed /\ VarFilesToCreate = {}) =>
       \A name \in Names :
          LET given == ArgsAssign(argv, name)
          IN  given # << >> =>
                 /\ name \in DOMAIN store.values
                 /\ store.values[name] = given[Len(given)]

\* -var=A=4 comes before -var-file=terraform.tfvars, which assigns 2 to A:
\* after the load A is 2, from the file.
C15_Witness ==
    /\ store.load_has_run
    /\ argv = <<VarOption(VarA, <<"4">>), VarFileOption(TerraformTfvars)>>
    /\ store.values[VarA] = VariableValue(VarA, <<"2">>, TerraformTfvars)

(***************************************************************************)
(* Value files read or awaited.                                            *)
(***************************************************************************)
\* The default and automatic value files load meets: on disk or to be
\* created.
ValueFileNames ==
    {f \in disk \cup files_to_create : IsDefaultTfvars(f) \/ IsAutoTfvars(f)}

\* The Values assigned to name by the sources that are not to be created,
\* from the lowest precedence to the highest.
ByPrecedenceRead(name) ==
    EnvironAssigns(environ, name)
       \o FilesAssign(Sorted((disk \cap {TerraformTfvars}) \ files_to_create),
                      name)
       \o FilesAssign(Sorted((disk \cap {TerraformTfvarsJson})
                                \ files_to_create), name)
       \o FilesAssign(Sorted(AutoFilesOnDisk \ files_to_create), name)
       \o ArgsAssign(argv, name)

C17_AddAfterLoad ==
    /\ [][\A var \in AllValues :
            (/\ result'.op = "add"
             /\ result'.var = var
             /\ result'.allow_change
             /\ result'.step = "add") =>
               /\ result'.out = Ok
               /\ store'.load_has_run
               /\ store'.values[var.name] = var
               /\ \E env \in Envs : \E l \in {Load(store, env)} :
                     /\ ~Raised(l.out)
                     /\ store' = StoreAdd(l.st, var).st]_vars
    /\ [][(store.load_has_run /\ store'.values # store.values) =>
             result'.op = "add"]_vars

\* The first call on the store is add(Value(A, 5), allow_change = true),
\* with -var=A=4 on the command line and TF_VAR_A in the environment: load
\* has run and A is 5.
C17_Witness ==
    /\ result.op = "add"
    /\ result.step = "add"
    /\ result.allow_change
    /\ result.out = Ok
    /\ argv = <<VarOption(VarA, <<"4">>)>>
    /\ environ = <<PathEntry, TfVarA>>
    /\ store.load_has_run
    /\ store.values[VarA] = result.var
    /\ result.var.value = <<"5">>
    /\ store.files_created = {}
    /\ store.tfvars_waiting = files_to_create

(***************************************************************************)
(* tfvars_waiting_for.                                                     *)
(***************************************************************************)
WaitingForAnswered ==
    result.op = "tfvars_waiting_for" /\ result.step = "tfvars_waiting_for"

\* C18: a tfvars_waiting_for whose load raises nothing leaves load run and
\* answers whether the name is a wait target then; as the first call, for a
\* default or automatic value file to be created and not yet reported, it
\* answers true; for a file reported created it answers false, and no file
\* reported created is a wait target.
C18_WaitingForLoadsFirst ==
    /\ [][(/\ result'.op = "tfvars_waiting_for"
           /\ result'.step = "tfvars_waiting_for") =>
             /\ store'.load_has_run
             /\ result'.out = Returned(result'.name \in store'.tfvars_waiting)
             /\ store.load_has_run => store' = store
             /\ (/\ ~store.load_has_run
                 /\ result'.name \in files_to_create
                 /\ IsDefaultTfvars(result'.name) \/ IsAutoTfvars(result'.name)
                 /\ result'.name \notin store.files_created) =>
                   result'.out = Returned(TRUE)]_vars
    /\ [](store.files_created \cap store.tfvars_waiting = {})
    /\ []((WaitingForAnswered /\ result.name \in store.files_created) =>
            result.out = Returned(FALSE))

\* tfvars_waiting_for has answered false for a file to be created that was
\* reported created, while the other file to be created is still awaited.
C18_Witness ==
    /\ WaitingForAnswered
    /\ result.out = Returned(FALSE)
    /\ result.name \in files_to_create
    /\ result.name \in store.files_created
    /\ store.tfvars_waiting # {}
    /\ store.tfvars_waiting \subseteq files_to_create

(***************************************************************************)
(* Rejected adds.                                                          *)
(***************************************************************************)
\* C19: an add that fails with AlreadyDefined or NotConsistent leaves the
\* store exactly as the load it called left it (as it was, when load had
\* run): the first Definition, or the old Value, is still the one stored for
\* the name and is the old one of the error, and definitions, values, wait
\* targets and defaults are otherwise the same.  So it is in every state for
\* the base store's add of a second Definition and for the add of a
\* different Value with allow_change = false.
C19_RejectedAddChangesNothing ==
    /\ [][(/\ result'.op = "add"
           /\ result'.step = "add"
           /\ result'.out.kind \in {"VariableAlreadyDefined",
                                    "VariableNotConsistent"}) =>
             /\ \E env \in Envs : \E l \in {Load(store, env)} :
                   /\ ~Raised(l.out)
                   /\ store' = l.st
             /\ store.load_has_run => store' = store
             /\ result'.out.new_var = result'.var
             /\ result'.out.kind = "VariableAlreadyDefined" =>
                   store'.definitions[result'.var.name] = result'.out.old_var
             /\ result'.out.kind = "VariableNotConsistent" =>
                   /\ store'.values[result'.var.name] = result'.out.old_var
                   /\ result'.out.old_var.value # result'.var.value]_vars
    /\ [](\A var \in AddPool, allow_change \in BOOLEAN :
            AddChecked(store, var, allow_change).out.kind
               \in {"VariableAlreadyDefined", "VariableNotConsistent"}
            => AddChecked(store, var, allow_change).st = store)

\* add of the Definition of A of gen.tf.json has failed with AlreadyDefined
\* while files are awaited: the Definition of main.tf is still the stored
\* one.
C19_Witness ==
    /\ result.op = "add"
    /\ result.step = "add"
    /\ result.out.kind = "VariableAlreadyDefined"
    /\ result.out.new_var.source = GenTfJson
    /\ result.out.old_var.source = MainTf
    /\ store.definitions[VarA] = result.out.old_var
    /\ store.tfvars_waiting # {}
    /\ ~store.allow_defaults

(***************************************************************************)
(* Draining of the wait targets.                                           *)
(***************************************************************************)
\* C20 as stated: once load has run and every file to be created has been
\* reported created, no wait target is left, the defaults are allowed, and
\* a get of a name with a defaulted Definition and no Value returns the
\* default.
C20_WaitingDrains ==
    (store.load_has_run /\ files_to_create \subseteq store.files_created) =>
       /\ store.tfvars_waiting = {}
       /\ store.allow_defaults
       /\ (LookedUp /\ OnlyDefault(result.name)) =>
             result.out = Returned(store.definitions[result.name].default)

(***************************************************************************)
(* Wait targets against files reported created.                            *)
(***************************************************************************)
\* C21: in every state no name is both a wait target and reported created.
\* tfvars_wait_for of a name reported created changes nothing; a load leaves
\* the names reported created before it out of the wait targets; and after
\* file_created(X), X is reported created and is no wait target.
C21_WaitingDisjointFromCreated ==
    /\ [](\A name \in store.tfvars_waiting : name \notin store.files_created)
    /\ [](\A name \in store.files_created :
            TfvarsWaitFor(store, name) = store)
    /\ [][(result'.op = "tfvars_wait_for"
             /\ result'.name \in store.files_created) => store' = store]_vars
    /\ [][result'.op = "file_created" =>
             /\ result'.name \in store'.files_created
             /\ result'.name \notin store'.tfvars_waiting
             /\ store'.tfvars_waiting = store.tfvars_waiting \ {result'.name}
         ]_vars
    /\ [][~store.load_has_run =>
             \A name \in store.files_created :
                name \notin store'.tfvars_waiting]_vars

\* Every file to be created was reported created before load ran: load has
\* marked no wait target and the defaults are allowed.
C21_Witness ==
    /\ result.op = "load"
    /\ result.out = Ok
    /\ files_to_create = {TerraformTfvarsJson, GAutoTfvarsJson}
    /\ store.files_created = files_to_create
    /\ store.load_has_run
    /\ store.tfvars_waiting = {}
    /\ store.allow_defaults
    /\ store.definitions # << >>

(***************************************************************************)
(* contains against get.                                                   *)
(***************************************************************************)
\* C22 as stated: when contains(name) has answered, a get of the name made
\* right then, the Job Driver doing nothing during process_jobs, returns a
\* value if the answer was true and fails with NotDefined or NotPopulated if
\* it was false.  A get whose load raises is left out.
C22_ContainsAgreesWithGet ==
    result.op = "contains" =>
       \A consumer \in Consumers :
          \A env \in Envs : \A l \in {Load(store, env)} :
             ~Raised(l.out) =>
                \A got \in {StoreGet(l.st, result.name, consumer)} :
                   IF result.out = Returned(TRUE)
                   THEN got.kind = "return"
                   ELSE got.kind \in {"VariableNotDefined",
                                      "VariableNotPopulated"}

(***************************************************************************)
(* Declaration files to be created.                                        *)
(***************************************************************************)
\* The declaration files that are to be created.
DeclarationFilesToCreate ==
    {f \in files_to_create :
       ~IsAutoTfvars(f) /\ ~IsDefaultTfvars(f) /\ IsTf(f)}

\* C23 as stated: after load, no file reported created yet, a declaration
\* file to be created is no wait target and no Definition has it as source;
\* every wait target is a default or automatic value file or the file of a
\* -var-file option; the defaults are allowed when no such value file is to
\* be created; and a get of G, which gen.tf.json declares, has failed with
\* NotDefined.
C23_DeclarationFilesNotAwaited ==
    (/\ store.load_has_run
     /\ store.files_created = {}
     /\ DeclarationFilesToCreate # {}) =>
       /\ \A f \in DeclarationFilesToCreate :
             /\ f \notin store.tfvars_waiting
             /\ \A n \in DOMAIN store.definitions :
                   store.definitions[n].source # f
       /\ \A w \in store.tfvars_waiting :
             w \in files_to_create /\ IsValueSource(w)
       /\ (\A f \in files_to_create : ~IsValueSource(f)) =>
             store.allow_defaults
       /\ (LookedUp /\ result.name = VarG) =>
             result.out = VariableNotDefined(VarG, result.consumer)

=============================================================================
